---- MODULE Spec2Model ----
(***************************************************************************)
(* Model of the JSAF auditor (src/app.py): the document loaded by          *)
(* load_json, and the three audit passes run on it by the script body,     *)
(* render_results_1d, render_mesh_results and render_validation.           *)
(*                                                                         *)
(* A JSON object is a function from its keys to its values, so that an     *)
(* absent key is a key outside the DOMAIN; dict.get(k, d) is Get.           *)
(* Python's None is the value None. Numeric result values are integers     *)
(* in units of 5e-7, so that the tolerance 1e-6 of nz_ratio_* is Tol = 2   *)
(* and values below, at and above the tolerance exist.                     *)
(***************************************************************************)
EXTENDS Integers, Sequences, FiniteSets, TLC

VARIABLES
    pc,        \* position of the script body: "idle", "r1d", "mesh", "val", "done"
    data,      \* the loaded document, NoData before load_json
    out1d,     \* what render_results_1d computed, NoOut before / on early return
    outMesh,   \* what render_mesh_results computed
    report     \* what render_validation computed

vars == <<pc, data, out1d, outMesh, report>>

-----------------------------------------------------------------------------
(* Bounds of the model *)

\* largest magnitude of a result value, in units of 5e-7
MaxVal == 3
\* largest number of records of a result collection in the aggregation inputs
MaxRecs == 3
\* largest number of collections in which a document differs from BaseDoc
MaxEdits == 2

-----------------------------------------------------------------------------
(* Python values *)

None == "<None>"
NoData == [loaded |-> FALSE]
NoOut == [computed |-> FALSE]

\* 1e-6 of nz_ratio_1d / nz_ratio_mesh, in units of 5e-7
Tol == 2

COMPS_1D == <<"aN", "aVy", "aVz", "aMx", "aMy", "aMz">>
COMPS_MESH == <<"amx", "amy", "amxy", "avx", "avy", "anx", "any", "anxy">>

\* d.get(k, dflt)
Get(d, k, dflt) == IF k \in DOMAIN d THEN d[k] ELSE dflt

Abs(v) == IF v < 0 THEN -v ELSE v

Max2(a, b) == IF b > a THEN b ELSE a

RECURSIVE MaxOfSeq(_)
MaxOfSeq(s) == IF Len(s) = 1 THEN s[1] ELSE Max2(MaxOfSeq(SubSeq(s, 1, Len(s) - 1)), s[Len(s)])

Range(s) == {s[i] : i \in 1..Len(s)}

RECURSIVE Concat(_)
Concat(ss) == IF Len(ss) = 0 THEN <<>> ELSE Concat(SubSeq(ss, 1, Len(ss) - 1)) \o ss[Len(ss)]

-----------------------------------------------------------------------------
(* nz_ratio_1d, nz_ratio_mesh *)

\* CompNonZero with ">=" for ">": a value at the tolerance counts as non-zero
CompNonZero_AtTol(r, c) == \E i \in 1..Len(Get(r, c, <<>>)) : Abs(Get(r, c, <<>>)[i]) >= Tol

\* any(abs(v) > 1e-6 for v in r.get(c, []))
CompNonZero(r, c) == \E i \in 1..Len(Get(r, c, <<>>)) : Abs(Get(r, c, <<>>)[i]) > Tol

\* nz_ratio dividing by the number of components the record holds
nz_ratio_PresentOnly(r, comps) ==
    LET present == {i \in 1..Len(comps) : comps[i] \in DOMAIN r}
        nz == Cardinality({i \in present : CompNonZero(r, comps[i])})
    IN IF present = {} THEN [num |-> 0, den |-> Len(comps)]
       ELSE [num |-> nz, den |-> Cardinality(present)]

\* nz / total: the quotient of two small naturals, kept as the fraction
nz_ratio(r, comps) ==
    LET total == Len(comps)
        nz == Cardinality({i \in 1..Len(comps) : CompNonZero(r, comps[i])})
    IN [num |-> nz, den |-> total]

nz_ratio_1d(r) == nz_ratio(r, COMPS_1D)

nz_ratio_mesh(r) == nz_ratio(r, COMPS_MESH)

\* comparisons of the float nz / total with 0 and 1.0
RatioIsOne(q) == q.num = q.den
RatioIsZero(q) == q.num = 0
RatioPos(q) == q.num > 0
RatioBelowOne(q) == q.num < q.den

-----------------------------------------------------------------------------
(* render_results_1d, render_mesh_results: the aggregation loop and counts *)

\* {"nonzero": 0, "zero": 0, "max_vals": {c: 0 for c in COMPS}}
SummaryInit(comps) ==
    [nonzero |-> 0, zero |-> 0, max_vals |-> [c \in Range(comps) |-> 0]]

\* MaxValsStep without the running maximum: the record's own maximum overwrites
MaxValsStep_LastWins(mv, r, comps) ==
    [c \in DOMAIN mv |->
        LET raw == Get(r, c, <<>>)
            vals == [i \in 1..Len(raw) |-> Abs(raw[i])]
        IN IF Len(vals) > 0 THEN MaxOfSeq(vals) ELSE mv[c]]

\* MaxValsStep over the signed values instead of their magnitudes
MaxValsStep_Signed(mv, r, comps) ==
    [c \in DOMAIN mv |->
        LET raw == Get(r, c, <<>>)
        IN IF Len(raw) > 0 THEN Max2(mv[c], MaxOfSeq(raw)) ELSE mv[c]]

\* for c in COMPS: vals = [abs(v) ...]; if vals: max_vals[c] = max(max_vals[c], max(vals))
MaxValsStep(mv, r, comps) ==
    [c \in DOMAIN mv |->
        LET raw == Get(r, c, <<>>)
            vals == [i \in 1..Len(raw) |-> Abs(raw[i])]
        IN IF Len(vals) > 0 THEN Max2(mv[c], MaxOfSeq(vals)) ELSE mv[c]]

\* CountStep counting a partial record as zero
CountStep_FullOnly(info, ratio) ==
    IF RatioIsOne(ratio)
    THEN [info EXCEPT !.nonzero = @ + 1]
    ELSE [info EXCEPT !.zero = @ + 1]

\* if ratio > 0: nonzero += 1 else: zero += 1
CountStep(info, ratio) ==
    IF RatioPos(ratio)
    THEN [info EXCEPT !.nonzero = @ + 1]
    ELSE [info EXCEPT !.zero = @ + 1]

\* IndexStep keeping the first record of a key (setdefault)
IndexStep_FirstWins(index, key, r) == index @@ (key :> r)

\* result_index[(bid, lid)] = r
IndexStep(index, key, r) == (key :> r) @@ index

\* one iteration of "for r in results"
ResultStep(acc, r, comps) ==
    LET bid == Get(r, "Member", "")
        lid == Get(r, "Load", "")
        ratio == nz_ratio(r, comps)
        old == IF bid \in DOMAIN acc.summary THEN acc.summary[bid] ELSE SummaryInit(comps)
        counted == CountStep(old, ratio)
        new == [counted EXCEPT !.max_vals = MaxValsStep(@, r, comps)]
    IN [result_index |-> IndexStep(acc.result_index, <<bid, lid>>, r),
        summary |-> (bid :> new) @@ acc.summary,
        ratios |-> Append(acc.ratios, ratio)]

RECURSIVE ResultLoop(_, _)
ResultLoop(results, comps) ==
    IF Len(results) = 0
    THEN [result_index |-> <<>>, summary |-> <<>>, ratios |-> <<>>]
    ELSE ResultStep(ResultLoop(SubSeq(results, 1, Len(results) - 1), comps),
                    results[Len(results)], comps)

\* ratio == 1.0 / 0 < ratio < 1.0 / ratio == 0 of the three count sums
IsFull(r, comps) == RatioIsOne(nz_ratio(r, comps))
IsPartial_Inclusive(r, comps) == RatioBelowOne(nz_ratio(r, comps))
IsPartial(r, comps) == RatioPos(nz_ratio(r, comps)) /\ RatioBelowOne(nz_ratio(r, comps))
IsEmpty(r, comps) == RatioIsZero(nz_ratio(r, comps))

\* the status line of the detail view for the record r = result_index.get(key)
DetailStatus(r, comps) ==
    LET ratio == nz_ratio(r, comps)
        nz_count == (ratio.num * Len(comps)) \div ratio.den
    IN IF DOMAIN r = {} THEN [status |-> "Sin resultado", nz_count |-> 0]
       ELSE IF RatioIsOne(ratio) THEN [status |-> "Completo", nz_count |-> nz_count]
       ELSE IF RatioPos(ratio) THEN [status |-> "Parcial", nz_count |-> nz_count]
       ELSE [status |-> "Vacio", nz_count |-> 0]

\* the body of render_results_1d / render_mesh_results on a collection
AuditResults(results, comps) ==
    IF Len(results) = 0
    THEN NoOut
    ELSE LET loop == ResultLoop(results, comps)
         IN [computed |-> TRUE,
             result_index |-> loop.result_index,
             summary |-> loop.summary,
             ratios |-> loop.ratios,
             total |-> Len(results),
             full |-> Cardinality({i \in 1..Len(results) : IsFull(results[i], comps)}),
             partial |-> Cardinality({i \in 1..Len(results) : IsPartial(results[i], comps)}),
             empty |-> Cardinality({i \in 1..Len(results) : IsEmpty(results[i], comps)}),
             detail |-> [k \in DOMAIN loop.result_index |->
                            DetailStatus(loop.result_index[k], comps)]]

render_results_1d(d) == AuditResults(Get(d, "Results1D", <<>>), COMPS_1D)

render_mesh_results(d) == AuditResults(Get(d, "MeshResults", <<>>), COMPS_MESH)

-----------------------------------------------------------------------------
(* render_validation *)

\* {it.get("Id", ""): it.get("Name", it.get("Id", "?")) for it in (items or [])}:
\* a later record replaces an earlier one of the same key
RECURSIVE id_name_map(_)
id_name_map(items) ==
    IF Len(items) = 0 THEN [x \in {} |-> x]
    ELSE LET it == items[Len(items)]
         IN (Get(it, "Id", "") :> Get(it, "Name", Get(it, "Id", "?")))
            @@ id_name_map(SubSeq(items, 1, Len(items) - 1))

\* set(x.get("Id") for x in data.get(coll, []))
IdSet(d, coll) == {Get(x, "Id", None) : x \in Range(Get(d, coll, <<>>))}

\* an entry of issues: the words of the message, and the id where the message has one
Issue(src, name, ref) == [src |-> src, name |-> name, ref |-> ref]
IssueWithId(src, name, ref, id) == [src |-> src, name |-> name, ref |-> ref, id |-> id]

\* NotIn naming each missing id once, however often the list holds it
NotIn_Distinct(refs, ids) ==
    LET first == {i \in 1..Len(refs) : \A j \in 1..(i - 1) : refs[j] # refs[i]}
        keep == [i \in 1..Len(refs) |-> i \in first /\ refs[i] \notin ids]
        idx == SelectSeq([i \in 1..Len(refs) |-> i], LAMBDA i : keep[i])
    IN [n \in 1..Len(idx) |-> refs[idx[n]]]

\* the elements of a reference list that pass "if x not in ids", in list order
NotIn(refs, ids) == SelectSeq(refs, LAMBDA x : x \notin ids)

\* for cs in CrossSections: for mid in cs.Materials: if mid not in mat_ids
CrossSectionIssues(cs, mat_ids) ==
    LET bad == NotIn(Get(cs, "Materials", <<>>), mat_ids)
    IN [i \in 1..Len(bad) |-> Issue("Seccion", Get(cs, "Name", None), "material")]

\* for nid in x.get("Nodes", []): if nid not in node_ids, for a bar or a surface
NodeIssues(src, x, node_ids) ==
    LET bad == NotIn(Get(x, "Nodes", <<>>), node_ids)
    IN [i \in 1..Len(bad) |-> IssueWithId(src, Get(x, "Name", None), "nodo", bad[i])]

\* BarIssues leaving a bar at its first error
BarIssues_SkipNodes(b, cs_ids, node_ids) ==
    IF Get(b, "CrossSection", "") # "" /\ b["CrossSection"] \notin cs_ids
    THEN <<Issue("Barra", Get(b, "Name", None), "seccion")>>
    ELSE NodeIssues("Barra", b, node_ids)

\* BarIssues testing the nodes before the cross-section
BarIssues_NodesFirst(b, cs_ids, node_ids) ==
    NodeIssues("Barra", b, node_ids)
    \o (IF Get(b, "CrossSection", "") # "" /\ b["CrossSection"] \notin cs_ids
        THEN <<Issue("Barra", Get(b, "Name", None), "seccion")>>
        ELSE <<>>)

\* for b in CurveMembers: the cross-section test, then every node
BarIssues(b, cs_ids, node_ids) ==
    (IF Get(b, "CrossSection", "") # "" /\ b["CrossSection"] \notin cs_ids
     THEN <<Issue("Barra", Get(b, "Name", None), "seccion")>>
     ELSE <<>>)
    \o NodeIssues("Barra", b, node_ids)

\* for s in SurfaceMembers: every node
SurfaceIssues(s, node_ids) == NodeIssues("Superficie", s, node_ids)

\* SupportIssues testing an empty or absent Node as well
SupportIssues_Strict(sup, node_ids) ==
    IF Get(sup, "Node", "") \notin node_ids
    THEN <<Issue("Apoyo", Get(sup, "Name", None), "nodo")>>
    ELSE <<>>

\* for sup in PointSupports
SupportIssues(sup, node_ids) ==
    IF Get(sup, "Node", "") # "" /\ sup["Node"] \notin node_ids
    THEN <<Issue("Apoyo", Get(sup, "Name", None), "nodo")>>
    ELSE <<>>

\* for o in SurfaceMemberOpenings
OpeningIssues(o, surf_ids) ==
    IF Get(o, "Surface", "") \notin surf_ids
    THEN <<Issue("Abertura", Get(o, "Name", None), "superficie")>>
    ELSE <<>>

\* the list issues after the five loops
Issues(d) ==
    LET mat_ids == IdSet(d, "Materials")
        cs_ids == IdSet(d, "CrossSections")
        node_ids == IdSet(d, "PointConnections")
        surf_ids == IdSet(d, "SurfaceMembers")
        css == Get(d, "CrossSections", <<>>)
        bars == Get(d, "CurveMembers", <<>>)
        surfs == Get(d, "SurfaceMembers", <<>>)
        sups == Get(d, "PointSupports", <<>>)
        opens == Get(d, "SurfaceMemberOpenings", <<>>)
    IN Concat([i \in 1..Len(css) |-> CrossSectionIssues(css[i], mat_ids)])
       \o Concat([i \in 1..Len(bars) |-> BarIssues(bars[i], cs_ids, node_ids)])
       \o Concat([i \in 1..Len(surfs) |-> SurfaceIssues(surfs[i], node_ids)])
       \o Concat([i \in 1..Len(sups) |-> SupportIssues(sups[i], node_ids)])
       \o Concat([i \in 1..Len(opens) |-> OpeningIssues(opens[i], surf_ids)])

\* Orphans against the other geometry collection
Orphans_WrongGeometry(d, coll, geom) ==
    {Get(r, "Member", None) : r \in Range(Get(d, coll, <<>>))}
    \ IdSet(d, IF geom = "CurveMembers" THEN "SurfaceMembers" ELSE "CurveMembers")

\* set(r.get("Member") for r in data.get(coll, [])) - geometry ids
Orphans(d, coll, geom) ==
    {Get(r, "Member", None) : r \in Range(Get(d, coll, <<>>))} \ IdSet(d, geom)

\* sum(1 for r in data.get(coll, []) if nz_ratio(r) == 0)
ZeroCount(d, coll, comps) ==
    LET rs == Get(d, coll, <<>>)
    IN Cardinality({i \in 1..Len(rs) : RatioIsZero(nz_ratio(rs[i], comps))})

\* the top-level keys of a document, in the order the document lists them
KeyOrder ==
    <<"Name", "Materials", "CrossSections", "PointConnections", "CurveMembers",
      "SurfaceMembers", "SurfaceMemberOpenings", "PointSupports", "LoadCases",
      "LoadCombinations", "PointActions", "Results1D", "MeshResults">>

\* isinstance(v, list): every top-level key but the scalar Name holds a list
IsList(k) == k # "Name"

\* EmptyKeys naming the collections the document lacks as well
EmptyKeys_AbsentToo(d) ==
    SelectSeq(KeyOrder, LAMBDA k : IsList(k) /\ Len(Get(d, k, <<>>)) = 0)

\* [k for k, v in data.items() if isinstance(v, list) and len(v) == 0]
EmptyKeys(d) ==
    SelectSeq(KeyOrder, LAMBDA k : k \in DOMAIN d /\ IsList(k) /\ Len(d[k]) = 0)

\* the list warns
Warns(d) ==
    LET r1d_o == Orphans(d, "Results1D", "CurveMembers")
        mr_o == Orphans(d, "MeshResults", "SurfaceMembers")
        z1 == ZeroCount(d, "Results1D", COMPS_1D)
        zm == ZeroCount(d, "MeshResults", COMPS_MESH)
        empty == EmptyKeys(d)
    IN (IF r1d_o # {}
        THEN <<[kind |-> "huerfanas", coll |-> "Results1D", n |-> Cardinality(r1d_o)]>>
        ELSE <<>>)
       \o (IF mr_o # {}
           THEN <<[kind |-> "huerfanas", coll |-> "MeshResults", n |-> Cardinality(mr_o)]>>
           ELSE <<>>)
       \o (IF z1 # 0
           THEN <<[kind |-> "vacios", coll |-> "Results1D", n |-> z1,
                   of |-> Len(Get(d, "Results1D", <<>>))]>>
           ELSE <<>>)
       \o (IF zm # 0
           THEN <<[kind |-> "vacios", coll |-> "MeshResults", n |-> zm,
                   of |-> Len(Get(d, "MeshResults", <<>>))]>>
           ELSE <<>>)
       \o (IF Len(empty) # 0
           THEN <<[kind |-> "entidades vacias", names |-> empty]>>
           ELSE <<>>)

\* the id sets render_validation builds before its loops, lc_ids included
IdSets(d) ==
    [Materials |-> IdSet(d, "Materials"),
     CrossSections |-> IdSet(d, "CrossSections"),
     PointConnections |-> IdSet(d, "PointConnections"),
     LoadCases |-> IdSet(d, "LoadCases"),
     SurfaceMembers |-> IdSet(d, "SurfaceMembers"),
     CurveMembers |-> IdSet(d, "CurveMembers")]

render_validation(d) ==
    LET issues == Issues(d)
        warns == Warns(d)
    IN [computed |-> TRUE,
        ids |-> IdSets(d),
        issues |-> issues,
        warns |-> warns,
        r1d_o |-> Orphans(d, "Results1D", "CurveMembers"),
        mr_o |-> Orphans(d, "MeshResults", "SurfaceMembers"),
        clean |-> (Len(issues) = 0 /\ Len(warns) = 0)]


-----------------------------------------------------------------------------
(* The documents load_json is given *)

Vals == (0 - MaxVal)..MaxVal

\* a result record with the sequence s for every component of comps
ResultRecord(member, load, comps, s) ==
    [k \in {"Member", "Load"} \cup Range(comps) |->
        IF k = "Member" THEN member ELSE IF k = "Load" THEN load ELSE s]

\* a document without dangling references, orphans, empty records or empty collections
BaseDoc ==
    [Name |-> "model",
     Materials |-> <<[Id |-> "m1", Name |-> "C25"]>>,
     CrossSections |-> <<[Id |-> "c1", Name |-> "R30", Materials |-> <<"m1">>]>>,
     PointConnections |-> <<[Id |-> "n1", Name |-> "N1"], [Id |-> "n2", Name |-> "N2"],
                            [Id |-> "n3", Name |-> "N3"]>>,
     CurveMembers |-> <<[Id |-> "1", Name |-> "B1", CrossSection |-> "c1",
                         Nodes |-> <<"n1", "n2">>]>>,
     SurfaceMembers |-> <<[Id |-> "1", Name |-> "S1", Materials |-> <<"m1">>,
                           Nodes |-> <<"n1", "n2", "n3">>]>>,
     SurfaceMemberOpenings |-> <<[Id |-> "o1", Name |-> "O1", Surface |-> "1",
                                  Nodes |-> <<"n1", "n2", "n3">>]>>,
     PointSupports |-> <<[Id |-> "s1", Name |-> "A1", Node |-> "n1"]>>,
     LoadCases |-> <<[Id |-> "L1", Name |-> "DL"], [Id |-> "L2", Name |-> "LL"]>>,
     LoadCombinations |-> <<[Id |-> "K1", Name |-> "ULS", LoadCases |-> <<"L1", "L2">>]>>,
     PointActions |-> <<[Id |-> "a1", Name |-> "P1", Node |-> "n2", LoadCase |-> "L1"]>>,
     Results1D |-> <<ResultRecord("1", "L1", COMPS_1D, <<0, MaxVal>>)>>,
     MeshResults |-> <<ResultRecord("1", "L1", COMPS_MESH, <<0 - MaxVal>>)>>]

Present(recs) == [present |-> TRUE, recs |-> recs]
Absent == [present |-> FALSE, recs |-> <<>>]

\* a record without one of its fields
Without(r, k) == [x \in DOMAIN r \ {k} |-> r[x]]

\* the values a collection takes in place of BaseDoc's
Options(k) ==
    LET base == BaseDoc[k]
        one == base[1]
    IN {Absent, Present(<<>>)} \cup
       CASE k = "Materials" ->
              {Present(<<Without(one, "Id")>>), Present(<<[one EXCEPT !.Id = "m2"]>>)}
         [] k = "CrossSections" ->
              {Present(<<[one EXCEPT !.Materials = <<"mX">>]>>),
               Present(<<[one EXCEPT !.Materials = <<"m1", "mX", "mX">>]>>),
               Present(<<Without([one EXCEPT !.Materials = <<"mX">>], "Name")>>),
               Present(<<Without(one, "Id")>>),
               Present(<<Without(one, "Materials")>>)}
         [] k = "PointConnections" ->
              {Present(<<base[1]>>), Present(<<Without(base[1], "Id"), base[2], base[3]>>)}
         [] k = "CurveMembers" ->
              {Present(<<[one EXCEPT !.CrossSection = "CS-missing"]>>),
               Present(<<[one EXCEPT !.CrossSection = ""]>>),
               Present(<<Without(one, "CrossSection")>>),
               Present(<<[one EXCEPT !.Nodes = <<"nX", "n2", "nX">>]>>),
               Present(<<[one EXCEPT !.CrossSection = "cX", !.Nodes = <<"n1", "nY">>]>>),
               Present(<<Without([one EXCEPT !.CrossSection = "cX"], "Name")>>),
               Present(<<[one EXCEPT !.Nodes = <<"n1", "nX">>],
                         [Id |-> "2", Name |-> "B2", CrossSection |-> "cX",
                          Nodes |-> <<"n2", "n3">>]>>),
               Present(<<Without(one, "Id")>>)}
         [] k = "SurfaceMembers" ->
              {Present(<<[one EXCEPT !.Nodes = <<"n1", "nX", "n3">>]>>),
               Present(<<[one EXCEPT !.Materials = <<"mX">>]>>),
               Present(<<Without([one EXCEPT !.Nodes = <<"nX", "n2", "n3">>], "Name")>>),
               Present(<<Without(one, "Id")>>)}
         [] k = "SurfaceMemberOpenings" ->
              {Present(<<[one EXCEPT !.Surface = "sX"]>>),
               Present(<<Without(one, "Surface")>>),
               Present(<<[one EXCEPT !.Surface = ""]>>),
               Present(<<[one EXCEPT !.Nodes = <<"n1", "n2", "nX">>]>>),
               Present(<<Without([one EXCEPT !.Surface = "sX"], "Name")>>)}
         [] k = "PointSupports" ->
              {Present(<<[one EXCEPT !.Node = "nX"]>>),
               Present(<<[one EXCEPT !.Node = ""]>>),
               Present(<<Without(one, "Node")>>),
               Present(<<Without([one EXCEPT !.Node = "nX"], "Name")>>)}
         [] k = "LoadCases" ->
              {Present(<<base[1]>>)}
         [] k = "LoadCombinations" ->
              {Present(<<[one EXCEPT !.LoadCases = <<"L1", "LX">>]>>)}
         [] k = "PointActions" ->
              {Present(<<[one EXCEPT !.Node = "nX"]>>),
               Present(<<[one EXCEPT !.LoadCase = "LX"]>>)}
         [] k = "Results1D" ->
              {Present(<<[one EXCEPT !.Member = "2"]>>),
               Present(<<[one EXCEPT !.Member = "2"], one, [one EXCEPT !.Member = "2"]>>),
               Present(<<[one EXCEPT !.Member = "2"], [one EXCEPT !.Member = "3"]>>),
               Present(<<Without(one, "Member")>>),
               Present(<<[one EXCEPT !.Load = "LX"]>>),
               Present(<<one, ResultRecord("1", "L2", COMPS_1D, <<0, 0, 0>>)>>)}
         [] k = "MeshResults" ->
              {Present(<<[one EXCEPT !.Member = "2"]>>),
               Present(<<[one EXCEPT !.Member = "2"], one, [one EXCEPT !.Member = "2"]>>),
               Present(<<[one EXCEPT !.Member = "2"], [one EXCEPT !.Member = "3"]>>),
               Present(<<Without(one, "Member")>>),
               Present(<<[one EXCEPT !.Load = "LX"]>>),
               Present(<<one, ResultRecord("1", "L2", COMPS_MESH, <<>>)>>)}

ListKeys == {k \in Range(KeyOrder) : IsList(k)}

ApplyEdit(d, k, opt) ==
    IF opt.present THEN [x \in DOMAIN d \cup {k} |-> IF x = k THEN opt.recs ELSE d[x]]
    ELSE Without(d, k)

\* the documents that differ from BaseDoc in at most n collections
RECURSIVE Edited(_)
Edited(n) ==
    IF n = 0 THEN {BaseDoc}
    ELSE LET prev == Edited(n - 1)
         IN prev \cup {ApplyEdit(d, k, o) : d \in prev, <<k, o>> \in
                         UNION {{<<kk, oo>> : oo \in Options(kk)} : kk \in ListKeys}}

ValDocs == Edited(MaxEdits)

\* the component sets a single record's non-quiet components are drawn from
CompSets(comps) ==
    LET n == Len(comps)
        all == Range(comps)
    IN {{comps[i] : i \in 1..j} : j \in 0..n}
       \cup {{comps[i]} : i \in 1..n}
       \cup {all \ {comps[i]} : i \in 1..n}

\* the value sequences of a component
SeqPool ==
    {<<>>} \cup {<<v>> : v \in Vals} \cup {<<0, v, 0>> : v \in Vals}
    \cup {<<v, w>> : v \in Vals, w \in {0 - Tol - 1, 0, Tol}}

\* what a component outside the chosen set holds: nothing, [], or zeros
QuietPool == {"absent", "empty", "zeros"}

\* a record whose components in S hold s and whose other components are quiet
ShapedRecord(comps, S, s, quiet) ==
    LET keys == {"Member", "Load", "SectionsAt"} \cup
                (IF quiet = "absent" THEN S ELSE Range(comps))
    IN [k \in keys |->
          IF k = "Member" THEN "1"
          ELSE IF k = "Load" THEN "L1"
          ELSE IF k = "SectionsAt" THEN <<0, MaxVal>>
          ELSE IF k \in S THEN s
          ELSE IF quiet = "empty" THEN <<>> ELSE <<0, 0, 0>>]

\* collections of one record, every shape
SingleRecordPool(comps) ==
    {<<ShapedRecord(comps, S, s, q)>> : S \in CompSets(comps), s \in SeqPool, q \in QuietPool}

\* a record of the aggregation inputs: "tol" holds values at the tolerance in every
\* component, "one" a value above it in the third component alone, "all" a value
\* above it in every component
ProfileRecord(m, l, comps, profile) ==
    IF profile = "tol" THEN ResultRecord(m, l, comps, <<0 - Tol>>)
    ELSE IF profile = "one"
    THEN [ResultRecord(m, l, comps, <<>>) EXCEPT ![comps[3]] = <<0, MaxVal, 0>>]
    ELSE ResultRecord(m, l, comps, <<1, 0 - MaxVal>>)

\* the records the aggregation inputs are made of: two owners (the second one
\* orphaned), two loads, pairs that repeat with other values
AggRecords(comps) ==
    {ProfileRecord(x[1], x[2], comps, x[3]) :
        x \in {<<"1", "L1", "tol">>, <<"1", "L1", "one">>, <<"1", "L1", "all">>,
               <<"1", "L2", "one">>,
               <<"2", "L1", "all">>, <<"2", "L1", "tol">>, <<"2", "L2", "one">>}}

\* collections of up to MaxRecs of them, in every order, duplicates included
AggPool(comps) == UNION {[1..n -> AggRecords(comps)] : n \in 0..MaxRecs}

Res1DDocs ==
    {[BaseDoc EXCEPT !.Results1D = rs] :
        rs \in SingleRecordPool(COMPS_1D) \cup AggPool(COMPS_1D)}

MeshDocs ==
    {[BaseDoc EXCEPT !.MeshResults = rs] :
        rs \in SingleRecordPool(COMPS_MESH) \cup AggPool(COMPS_MESH)}

-----------------------------------------------------------------------------
(* The script body *)

Init ==
    /\ pc = "idle"
    /\ data = NoData
    /\ out1d = NoOut
    /\ outMesh = NoOut
    /\ report = NoOut

\* uploaded: data = load_json(uploaded), the upload being one of the documents of D
LoadJson(D) ==
    /\ pc = "idle"
    /\ \E d \in D : data' = d
    /\ pc' = "r1d"
    /\ UNCHANGED <<out1d, outMesh, report>>

\* with tabs[9]: render_results_1d(data)
RenderResults1D ==
    /\ pc = "r1d"
    /\ out1d' = render_results_1d(data)
    /\ pc' = "mesh"
    /\ UNCHANGED <<data, outMesh, report>>

\* with tabs[10]: render_mesh_results(data)
RenderMeshResults ==
    /\ pc = "mesh"
    /\ outMesh' = render_mesh_results(data)
    /\ pc' = "val"
    /\ UNCHANGED <<data, out1d, report>>

\* with tabs[11]: render_validation(data)
RenderValidation ==
    /\ pc = "val"
    /\ report' = render_validation(data)
    /\ pc' = "done"
    /\ UNCHANGED <<data, out1d, outMesh>>

\* the script runs again from the top on the next upload; nothing survives a run
Rerun ==
    /\ pc = "done"
    /\ pc' = "idle"
    /\ data' = NoData
    /\ out1d' = NoOut
    /\ outMesh' = NoOut
    /\ report' = NoOut

Next ==
    \/ LoadJson(ValDocs)
    \/ LoadJson(Res1DDocs)
    \/ LoadJson(MeshDocs)
    \/ RenderResults1D
    \/ RenderMeshResults
    \/ RenderValidation
    \/ Rerun

Spec == Init /\ [][Next]_vars

\* the script on the documents that vary the geometry, load and result references
NextValidation ==
    \/ LoadJson(ValDocs)
    \/ RenderResults1D
    \/ RenderMeshResults
    \/ RenderValidation
    \/ Rerun

SpecValidation == Init /\ [][NextValidation]_vars

\* the script on the documents that vary the records of a result collection
NextResults ==
    \/ LoadJson(Res1DDocs)
    \/ LoadJson(MeshDocs)
    \/ RenderResults1D
    \/ RenderMeshResults
    \/ RenderValidation
    \/ Rerun

SpecResults == Init /\ [][NextResults]_vars


-----------------------------------------------------------------------------
(* Properties of the result passes *)

Done == pc = "done"

R1D == Get(data, "Results1D", <<>>)
RMesh == Get(data, "MeshResults", <<>>)

\* a component holds an element strictly beyond the tolerance, on either side
BeyondTol(r, c) == c \in DOMAIN r /\ \E i \in DOMAIN r[c] : r[c][i] > Tol \/ r[c][i] < 0 - Tol

\* the number of fixed components of a record that do
NonZeroComps(r, comps) == Cardinality({c \in Range(comps) : BeyondTol(r, c)})

OwnerOf(r) == IF "Member" \in DOMAIN r THEN r.Member ELSE ""
KeyOf(r) == <<OwnerOf(r), IF "Load" \in DOMAIN r THEN r.Load ELSE "">>

\* the counts of a computed output add up
CountsAddUp(out) == out.total = out.full + out.partial + out.empty

\* C2 as stated: for every result collection, the empty one included, the session
\* counts exist and satisfy total = complete + partial + empty.
C2_CountsForEveryCollection ==
    Done => /\ out1d.computed /\ CountsAddUp(out1d)
            /\ outMesh.computed /\ CountsAddUp(outMesh)

\* the three classes of a computed output are those of the per-record ratios
CountsPartition(out, rs) ==
    /\ out.total = Len(rs)
    /\ CountsAddUp(out)
    /\ out.full = Cardinality({i \in 1..Len(rs) : out.ratios[i].num = out.ratios[i].den})
    /\ out.partial = Cardinality({i \in 1..Len(rs) :
                         0 < out.ratios[i].num /\ out.ratios[i].num < out.ratios[i].den})
    /\ out.empty = Cardinality({i \in 1..Len(rs) : out.ratios[i].num = 0})

\* C2 (amended): for every non-empty result collection the session counts satisfy
\* total = complete + partial + empty, complete counting the records of ratio 1,
\* partial those with 0 < ratio < 1 and empty those of ratio 0; for an empty or
\* absent collection the pass returns before computing any count.
C2_CountsPartition ==
    Done => /\ out1d.computed <=> Len(R1D) > 0
            /\ out1d.computed => CountsPartition(out1d, R1D)
            /\ outMesh.computed <=> Len(RMesh) > 0
            /\ outMesh.computed => CountsPartition(outMesh, RMesh)

\* C2 witness: a collection with a complete, a partial and an empty record was counted
C2_Witness ==
    Done /\ out1d.computed /\ out1d.full > 0 /\ out1d.partial > 0 /\ out1d.empty > 0

Permuted(rs, p) == [i \in 1..Len(rs) |-> rs[p[i]]]

SameSummaryAndCounts(o, out) ==
    /\ o.computed = out.computed
    /\ o.computed => /\ o.summary = out.summary
                     /\ o.full = out.full
                     /\ o.partial = out.partial
                     /\ o.empty = out.empty

\* C3: for every permutation of a result collection's records, the per-owner summary
\* (nonzero count, zero count, per-component maximum) and the three completeness
\* counts computed from the permuted collection are those of the original order.
C3_OrderIndependent ==
    Done => /\ \A p \in Permutations(1..Len(R1D)) :
                 SameSummaryAndCounts(AuditResults(Permuted(R1D, p), COMPS_1D), out1d)
            /\ \A p \in Permutations(1..Len(RMesh)) :
                 SameSummaryAndCounts(AuditResults(Permuted(RMesh, p), COMPS_MESH), outMesh)

\* C3 witness: some reordering of the records changes result_index, and an owner
\* has several records
C3_Witness ==
    /\ Done /\ outMesh.computed
    /\ \E p \in Permutations(1..Len(RMesh)) :
          AuditResults(Permuted(RMesh, p), COMPS_MESH).result_index # outMesh.result_index
    /\ \E o \in DOMAIN outMesh.summary :
          outMesh.summary[o].nonzero > 0 /\ outMesh.summary[o].zero > 0

\* C7: a component of a record counts as non-zero iff one of its elements has
\* magnitude strictly above the tolerance; absent, empty, all-zero and
\* within-tolerance components (the tolerance itself included) count as zero.
C7_NonZeroThreshold ==
    Done => /\ out1d.computed =>
                 \A i \in 1..Len(R1D) : out1d.ratios[i].num = NonZeroComps(R1D[i], COMPS_1D)
            /\ outMesh.computed =>
                 \A i \in 1..Len(RMesh) :
                    outMesh.ratios[i].num = NonZeroComps(RMesh[i], COMPS_MESH)

\* C7 witness: a record holding the tolerance and its negative in one component, and
\* nothing beyond it, was given ratio 0
C7_Witness ==
    /\ Done /\ out1d.computed /\ Len(R1D) = 1
    /\ \E c \in Range(COMPS_1D) : c \in DOMAIN R1D[1] /\ R1D[1][c] = <<0 - Tol, Tol>>
    /\ out1d.ratios[1].num = 0
    /\ out1d.empty = 1

ClassOf(n, size) == IF n = 0 THEN "Vacio" ELSE IF n = size THEN "Completo" ELSE "Parcial"

RatioAndClass(out, rs, comps, size) ==
    /\ \A i \in 1..Len(rs) :
          out.ratios[i] = [num |-> NonZeroComps(rs[i], comps), den |-> size]
    /\ out.empty = Cardinality({i \in 1..Len(rs) : NonZeroComps(rs[i], comps) = 0})
    /\ out.full = Cardinality({i \in 1..Len(rs) : NonZeroComps(rs[i], comps) = size})
    /\ out.partial = Cardinality({i \in 1..Len(rs) :
                         NonZeroComps(rs[i], comps) \notin {0, size}})
    /\ \A k \in DOMAIN out.result_index :
          /\ out.detail[k].status = ClassOf(NonZeroComps(out.result_index[k], comps), size)
          /\ out.detail[k].nz_count = NonZeroComps(out.result_index[k], comps)

\* C8: a record's ratio is the number of its non-zero components among the fixed
\* component names over 6 (Results1D) or 8 (MeshResults); the record is Empty iff
\* none is non-zero, Complete iff all are, Partial otherwise.
C8_RatioAndClass ==
    Done => /\ out1d.computed => RatioAndClass(out1d, R1D, COMPS_1D, 6)
            /\ outMesh.computed => RatioAndClass(outMesh, RMesh, COMPS_MESH, 8)

\* C8 witness: the record with aVz = [0, v, 0], v above the tolerance, as its only
\* component has ratio 1/6 and is Partial
C8_Witness ==
    /\ Done /\ out1d.computed /\ Len(R1D) = 1
    /\ DOMAIN R1D[1] \cap Range(COMPS_1D) = {"aVz"}
    /\ R1D[1].aVz = <<0, MaxVal, 0>>
    /\ out1d.ratios[1] = [num |-> 1, den |-> 6]
    /\ out1d.partial = 1
    /\ out1d.detail[KeyOf(R1D[1])].status = "Parcial"

LastOf(rs, k) ==
    LET I == {i \in 1..Len(rs) : KeyOf(rs[i]) = k}
    IN rs[CHOOSE i \in I : \A j \in I : j <= i]

LastWriteWins(out, rs, comps) ==
    /\ DOMAIN out.result_index = {KeyOf(rs[i]) : i \in 1..Len(rs)}
    /\ \A k \in DOMAIN out.result_index : out.result_index[k] = LastOf(rs, k)
    /\ DOMAIN out.summary = {OwnerOf(rs[i]) : i \in 1..Len(rs)}
    /\ \A o \in DOMAIN out.summary :
          out.summary[o].nonzero + out.summary[o].zero =
             Cardinality({i \in 1..Len(rs) : OwnerOf(rs[i]) = o})
    /\ \A i \in 1..Len(rs) : \A c \in Range(comps) \cap DOMAIN rs[i] :
          \A j \in DOMAIN rs[i][c] :
             /\ out.summary[OwnerOf(rs[i])].max_vals[c] >= rs[i][c][j]
             /\ out.summary[OwnerOf(rs[i])].max_vals[c] >= 0 - rs[i][c][j]
    /\ out.total = Len(rs)
    /\ out.full + out.partial + out.empty = Len(rs)

\* C9: when several records share an (owner id, load id) pair, result_index maps the
\* pair to the last of them, and every one of them is still counted in the owner's
\* nonzero/zero counts, in the owner's maxima and in the session totals.
C9_LastWriteWins ==
    Done => /\ out1d.computed => LastWriteWins(out1d, R1D, COMPS_1D)
            /\ outMesh.computed => LastWriteWins(outMesh, RMesh, COMPS_MESH)

\* C9 witness: two mesh records of one (panel, load) pair with different values; the
\* index holds the second, the owner's counts hold both
C9_Witness ==
    /\ Done /\ outMesh.computed /\ Len(RMesh) = 2
    /\ KeyOf(RMesh[1]) = KeyOf(RMesh[2])
    /\ RMesh[1] # RMesh[2]
    /\ outMesh.result_index[KeyOf(RMesh[1])] = RMesh[2]
    /\ outMesh.summary[OwnerOf(RMesh[1])].nonzero = 2
    /\ outMesh.total = 2


-----------------------------------------------------------------------------
(* Properties of the validation pass *)

\* The reference fields of the data model: the collection and field holding the
\* reference, whether the field is a list, the collections an id may resolve in, the
\* words an error about it uses, and whether an empty value is a reference at all.
Ref(coll, field, list, targets, src, kind, mandatory) ==
    [coll |-> coll, field |-> field, list |-> list, targets |-> targets,
     src |-> src, kind |-> kind, mandatory |-> mandatory]

\* the six relations the reference validator lists
CheckedRefs ==
    {Ref("CrossSections", "Materials", TRUE, {"Materials"}, "Seccion", "material", FALSE),
     Ref("CurveMembers", "CrossSection", FALSE, {"CrossSections"}, "Barra", "seccion", FALSE),
     Ref("CurveMembers", "Nodes", TRUE, {"PointConnections"}, "Barra", "nodo", FALSE),
     Ref("SurfaceMembers", "Nodes", TRUE, {"PointConnections"}, "Superficie", "nodo", FALSE),
     Ref("PointSupports", "Node", FALSE, {"PointConnections"}, "Apoyo", "nodo", FALSE),
     Ref("SurfaceMemberOpenings", "Surface", FALSE, {"SurfaceMembers"}, "Abertura",
         "superficie", TRUE)}

\* the other references of the data model
OtherRefs ==
    {Ref("SurfaceMembers", "Materials", TRUE, {"Materials"}, "Superficie", "material", FALSE),
     Ref("SurfaceMemberOpenings", "Nodes", TRUE, {"PointConnections"}, "Abertura", "nodo",
         FALSE),
     Ref("LoadCombinations", "LoadCases", TRUE, {"LoadCases"}, "Combinacion", "caso", FALSE),
     Ref("PointActions", "Node", FALSE, {"PointConnections"}, "Accion", "nodo", FALSE),
     Ref("PointActions", "LoadCase", FALSE, {"LoadCases"}, "Accion", "caso", FALSE),
     Ref("Results1D", "Load", FALSE, {"LoadCases", "LoadCombinations"}, "Results1D", "caso",
         FALSE),
     Ref("MeshResults", "Load", FALSE, {"LoadCases", "LoadCombinations"}, "MeshResults",
         "caso", FALSE)}

Coll(d, k) == IF k \in DOMAIN d THEN d[k] ELSE <<>>

\* the reference values a record holds in a field; an empty or absent single value
\* is a reference only where the relation is mandatory
RefValues(rec, e, strict) ==
    IF e.list THEN (IF e.field \in DOMAIN rec THEN rec[e.field] ELSE <<>>)
    ELSE IF e.field \in DOMAIN rec /\ rec[e.field] # "" THEN <<rec[e.field]>>
    ELSE IF strict /\ e.mandatory THEN <<"">>
    ELSE <<>>

\* some record of a target collection has the id
Resolves(d, id, targets) ==
    \E t \in targets : \E k \in 1..Len(Coll(d, t)) :
        "Id" \in DOMAIN Coll(d, t)[k] /\ Coll(d, t)[k].Id = id

\* the reference occurrences of the relations of table that resolve nowhere
Unresolved(d, table, strict) ==
    UNION {UNION {{[rel |-> e, i |-> i, j |-> j, id |-> RefValues(Coll(d, e.coll)[i], e, strict)[j]] :
                      j \in {j \in 1..Len(RefValues(Coll(d, e.coll)[i], e, strict)) :
                               ~Resolves(d, RefValues(Coll(d, e.coll)[i], e, strict)[j],
                                         e.targets)}} :
                  i \in 1..Len(Coll(d, e.coll))} :
           e \in table}

\* the owners (Member ids) of a result collection that no geometry record has
OrphanOwners(d, coll, geom) ==
    {Coll(d, coll)[i].Member : i \in {i \in 1..Len(Coll(d, coll)) :
                                        "Member" \in DOMAIN Coll(d, coll)[i]}}
    \ {Coll(d, geom)[k].Id : k \in {k \in 1..Len(Coll(d, geom)) :
                                      "Id" \in DOMAIN Coll(d, geom)[k]}}

HasEmptyRecord(d) ==
    \/ \E i \in 1..Len(Coll(d, "Results1D")) : NonZeroComps(d.Results1D[i], COMPS_1D) = 0
    \/ \E i \in 1..Len(Coll(d, "MeshResults")) : NonZeroComps(d.MeshResults[i], COMPS_MESH) = 0

HasEmptyCollection(d) == \E k \in DOMAIN d : k # "Name" /\ Len(d[k]) = 0

\* C1 as stated: the report is clean iff the document has no dangling reference, no
\* orphaned result owner, no result record of ratio 0 and no collection present
\* with zero records.
C1_CleanIff ==
    Done => (report.clean <=>
                /\ Unresolved(data, CheckedRefs \cup OtherRefs, FALSE) = {}
                /\ OrphanOwners(data, "Results1D", "CurveMembers") = {}
                /\ OrphanOwners(data, "MeshResults", "SurfaceMembers") = {}
                /\ ~HasEmptyRecord(data)
                /\ ~HasEmptyCollection(data))

\* an issue speaks of an occurrence: the source collection's word and the reference kind
About(issue, occ) == issue.src = occ.rel.src /\ issue.ref = occ.rel.kind

\* C4 as stated: every non-empty reference of the data model that resolves nowhere
\* produces an error of the validation report.
C4_EveryDanglingReported ==
    Done => \A occ \in Unresolved(data, CheckedRefs \cup OtherRefs, FALSE) :
               \E n \in 1..Len(report.issues) : About(report.issues[n], occ)

IssuesAbout(e) == {n \in 1..Len(report.issues) :
                      report.issues[n].src = e.src /\ report.issues[n].ref = e.kind}

\* the document of Scenario A: no CrossSections collection, one bar, whose
\* cross-section is its only unresolved reference
ScenarioA(d) ==
    /\ "CrossSections" \notin DOMAIN d
    /\ Len(Coll(d, "CurveMembers")) = 1
    /\ \A occ \in Unresolved(d, CheckedRefs, TRUE) :
          occ.rel.coll = "CurveMembers" /\ occ.rel.field = "CrossSection"
    /\ Unresolved(d, CheckedRefs, TRUE) # {}

NameOrId(rec) ==
    IF "Name" \in DOMAIN rec THEN rec.Name
    ELSE IF "Id" \in DOMAIN rec THEN rec.Id ELSE None

\* C6 as stated: every issue of the reference validator carries the source entity's
\* name (its id when it has no name), the kind of reference and the dangling id.
C6_IssueCarriesNameKindId ==
    Done => \A n \in 1..Len(report.issues) :
               \E occ \in Unresolved(data, CheckedRefs, TRUE) :
                  /\ About(report.issues[n], occ)
                  /\ report.issues[n].name = NameOrId(Coll(data, occ.rel.coll)[occ.i])
                  /\ "id" \in DOMAIN report.issues[n]
                  /\ report.issues[n].id = occ.id

\* the owners a result collection names, a record without Member being read as
\* the owner None, that no geometry record has as its Id (None for a record without)
OwnersNotInGeometry(d, coll, geom) ==
    {o \in {IF "Member" \in DOMAIN Coll(d, coll)[i] THEN Coll(d, coll)[i].Member ELSE None :
               i \in 1..Len(Coll(d, coll))} :
        \A k \in 1..Len(Coll(d, geom)) :
           (IF "Id" \in DOMAIN Coll(d, geom)[k] THEN Coll(d, geom)[k].Id ELSE None) # o}

OrphanWarnings(coll) ==
    {n \in 1..Len(report.warns) :
        report.warns[n].kind = "huerfanas" /\ report.warns[n].coll = coll}

OrphanReport(set, coll, geom) ==
    /\ set = OwnersNotInGeometry(data, coll, geom)
    /\ Cardinality(OrphanWarnings(coll)) = (IF set = {} THEN 0 ELSE 1)
    /\ \A n \in OrphanWarnings(coll) : report.warns[n].n = Cardinality(set)

EmptyRef(rec, field) == field \notin DOMAIN rec \/ rec[field] = ""

\* the records of a collection whose single-valued field is non-empty and is the Id
\* of no record of the target collection
DanglingSingle(d, coll, field, target) ==
    {i \in 1..Len(Coll(d, coll)) :
        /\ ~EmptyRef(Coll(d, coll)[i], field)
        /\ ~Resolves(d, Coll(d, coll)[i][field], {target})}

\* the errors about a single-valued field are those of the records whose non-empty
\* value resolves nowhere: as many, and one with the name of each
SingleFieldTested(coll, field, target, src, kind) ==
    LET about == {n \in 1..Len(report.issues) :
                     report.issues[n].src = src /\ report.issues[n].ref = kind}
        bad == DanglingSingle(data, coll, field, target)
    IN /\ Cardinality(about) = Cardinality(bad)
       /\ \A i \in bad : \E n \in about :
             report.issues[n].name = Get(Coll(data, coll)[i], "Name", None)
       /\ (\A i \in 1..Len(Coll(data, coll)) : EmptyRef(Coll(data, coll)[i], field))
             => about = {}

\* C11: a bar whose CrossSection is absent or the empty string yields no
\* cross-section error and a support whose Node is absent or empty yields no node
\* error, whatever CrossSections and PointConnections hold; a non-empty value of
\* either field is always tested against the id set, one error when it is not there.
C11_EmptyReferenceNotTested ==
    Done => /\ SingleFieldTested("CurveMembers", "CrossSection", "CrossSections",
                                 "Barra", "seccion")
            /\ SingleFieldTested("PointSupports", "Node", "PointConnections",
                                 "Apoyo", "nodo")

\* C11 witness: a support without a Node, or with an empty one, in a document that
\* has no nodes at all; the only errors are those of the bar's nodes
C11_Witness ==
    /\ Done
    /\ Len(Coll(data, "PointConnections")) = 0
    /\ Len(Coll(data, "PointSupports")) = 1
    /\ EmptyRef(data.PointSupports[1], "Node")
    /\ Len(report.issues) > 0
    /\ \A n \in 1..Len(report.issues) : report.issues[n].src # "Apoyo"

\* the validator's loops, in the order it runs them
LoopOf(coll) ==
    CASE coll = "CrossSections" -> 1
      [] coll = "CurveMembers" -> 2
      [] coll = "SurfaceMembers" -> 3
      [] coll = "PointSupports" -> 4
      [] coll = "SurfaceMemberOpenings" -> 5

\* where an unresolved occurrence stands: its loop, its entity's index in the
\* collection, and its place among the entity's references (a single-valued field
\* before the elements of a list, these in list order)
OccKey(occ) == <<LoopOf(occ.rel.coll), occ.i, IF occ.rel.list THEN occ.j ELSE 0>>

Before(a, b) ==
    LET x == OccKey(a)
        y == OccKey(b)
    IN \/ x[1] < y[1]
       \/ x[1] = y[1] /\ x[2] < y[2]
       \/ x[1] = y[1] /\ x[2] = y[2] /\ x[3] < y[3]

\* the rank of an unresolved occurrence among those of the document
PosOf(d, occ) == 1 + Cardinality({o \in Unresolved(d, CheckedRefs, TRUE) : Before(o, occ)})

\* the ids a reference of relation e may be repaired with
TargetIds(d, e) ==
    UNION {{Coll(d, t)[k].Id : k \in {k \in 1..Len(Coll(d, t)) : "Id" \in DOMAIN Coll(d, t)[k]}} :
             t \in e.targets}

Repairable(d, occ) == TargetIds(d, occ.rel) # {}

GoodId(d, e) == CHOOSE id \in TargetIds(d, e) : TRUE

\* record i of collection k with the occurrences of S it holds replaced by ids of
\* the target collection
RepairedRecord(d, k, i, S) ==
    LET rec == d[k][i]
        mine == {o \in S : o.rel.coll = k /\ o.i = i}
    IN [f \in DOMAIN rec \cup {o.rel.field : o \in mine} |->
          IF \E o \in mine : o.rel.field = f
          THEN LET e == (CHOOSE o \in mine : o.rel.field = f).rel
               IN IF e.list
                  THEN [j \in 1..Len(rec[f]) |->
                          IF \E o \in mine : o.rel.field = f /\ o.j = j
                          THEN GoodId(d, e) ELSE rec[f][j]]
                  ELSE GoodId(d, e)
          ELSE rec[f]]

\* the document with the occurrences of S repaired and nothing else changed
Repaired(d, S) ==
    [k \in DOMAIN d |->
        IF IsList(k) THEN [i \in 1..Len(d[k]) |-> RepairedRecord(d, k, i, S)] ELSE d[k]]

\* a list without the entries at the positions of gone
Kept(list, gone) ==
    LET idx == SelectSeq([n \in 1..Len(list) |-> n], LAMBDA n : n \notin gone)
    IN [m \in 1..Len(idx) |-> list[idx[m]]]

\* C12: a dangling reference neither ends the validation nor takes its entity out of
\* the other checks: the error list has an entry for every unresolved reference,
\* and for every set of them that is repaired, the report of the repaired document
\* is the report of the original one without the entries of the repaired references
\* and with the same warnings.
C12_RepairRemovesOnlyItsEntries ==
    Done => LET occs == Unresolved(data, CheckedRefs, TRUE)
            IN /\ Len(report.issues) = Cardinality(occs)
               /\ \A S \in SUBSET {o \in occs : Repairable(data, o)} :
                     LET r == render_validation(Repaired(data, S))
                     IN /\ r.issues = Kept(report.issues, {PosOf(data, o) : o \in S})
                        /\ r.warns = report.warns

\* C12 witness: a bar with a dangling cross-section and a dangling node, in a
\* document with an orphaned result owner: both errors and the warning are reported,
\* and repairing the cross-section leaves the node error and the warning
C12_Witness ==
    /\ Done
    /\ Len(Coll(data, "CurveMembers")) = 1
    /\ report.issues = <<Issue("Barra", "B1", "seccion"),
                         IssueWithId("Barra", "B1", "nodo", "nY")>>
    /\ report.r1d_o # {}
    /\ LET cs == {o \in Unresolved(data, CheckedRefs, TRUE) : o.rel.field = "CrossSection"}
           r == render_validation(Repaired(data, cs))
       IN /\ Cardinality(cs) = 1
          /\ r.issues = <<IssueWithId("Barra", "B1", "nodo", "nY")>>
          /\ r.warns = report.warns
          /\ Len(r.warns) > 0

\* the entry an unresolved occurrence is reported with
EntryOf(d, occ) ==
    LET name == Get(Coll(d, occ.rel.coll)[occ.i], "Name", None)
    IN IF occ.rel.list /\ occ.rel.kind = "nodo"
       THEN IssueWithId(occ.rel.src, name, occ.rel.kind, occ.id)
       ELSE Issue(occ.rel.src, name, occ.rel.kind)

\* C13: the error list is ordered: the entries of a collection's entities follow the
\* entities' order in the collection, and those of one entity follow its references
\* (a bar's cross-section before its nodes, the nodes in Nodes order); validating
\* the same document again yields the same errors and the same warnings, in the
\* same order.
C13_IssuesInDocumentOrder ==
    Done => /\ Len(report.issues) = Cardinality(Unresolved(data, CheckedRefs, TRUE))
            /\ \A occ \in Unresolved(data, CheckedRefs, TRUE) :
                  report.issues[PosOf(data, occ)] = EntryOf(data, occ)
            /\ render_validation(data).issues = report.issues
            /\ render_validation(data).warns = report.warns

\* C13 witness: a cross-section with a dangling material, a first bar with a
\* dangling second node and a second bar with a dangling cross-section, reported in
\* that order
C13_Witness ==
    /\ Done
    /\ Len(Coll(data, "CurveMembers")) = 2
    /\ report.issues = <<Issue("Seccion", "R30", "material"),
                         IssueWithId("Barra", "B1", "nodo", "nX"),
                         Issue("Barra", "B2", "seccion")>>

\* the document with collection k present and holding no record
WithEmpty(d, k) == [x \in DOMAIN d \cup {k} |-> IF x = k THEN <<>> ELSE d[x]]

EmptyCollectionWarnings(warns) ==
    {n \in 1..Len(warns) : warns[n].kind = "entidades vacias"}

\* the collections the empty-collection warning of a warning list names
NamedEmpty(warns) ==
    UNION {Range(warns[n].names) : n \in EmptyCollectionWarnings(warns)}

\* the warnings of the orphan and empty-record checks
OtherWarnings(warns) == SelectSeq(warns, LAMBDA w : w.kind # "entidades vacias")

\* C14: a collection the document lacks is treated by every reference, orphan and
\* empty-record check, and by both result passes, exactly as one present with no
\* record, and is not named in the empty-collection warning; that warning, given
\* once, names exactly the collections present with zero records.
C14_AbsentIsEmptyAndSilent ==
    Done => /\ \A k \in ListKeys \ DOMAIN data :
                  LET r == render_validation(WithEmpty(data, k))
                  IN /\ r.issues = report.issues
                     /\ OtherWarnings(r.warns) = OtherWarnings(report.warns)
                     /\ r.r1d_o = report.r1d_o
                     /\ r.mr_o = report.mr_o
                     /\ render_results_1d(WithEmpty(data, k)) = out1d
                     /\ render_mesh_results(WithEmpty(data, k)) = outMesh
                     /\ k \in NamedEmpty(r.warns)
                     /\ k \notin NamedEmpty(report.warns)
            /\ NamedEmpty(report.warns) =
                  {k \in DOMAIN data : k # "Name" /\ Len(data[k]) = 0}
            /\ Cardinality(EmptyCollectionWarnings(report.warns)) =
                  (IF \E k \in DOMAIN data : k # "Name" /\ Len(data[k]) = 0 THEN 1 ELSE 0)

\* C14 witness: a document without CrossSections and with Materials present and
\* empty: the bar's cross-section is reported as with an empty CrossSections, and
\* the one warning names Materials alone
C14_Witness ==
    /\ Done
    /\ "CrossSections" \notin DOMAIN data
    /\ "Materials" \in DOMAIN data /\ Len(data.Materials) = 0
    /\ report.issues = <<Issue("Barra", "B1", "seccion")>>
    /\ report.warns = <<[kind |-> "entidades vacias", names |-> <<"Materials">>]>>

\* the magnitudes of all elements of component c over all records of owner o
MagnitudesOf(rs, o, c) ==
    UNION {{Abs(rs[i][c][j]) : j \in DOMAIN rs[i][c]} :
             i \in {i \in 1..Len(rs) : OwnerOf(rs[i]) = o /\ c \in DOMAIN rs[i]}}

\* their maximum, 0 when there is none
MaxMagnitude(rs, o, c) ==
    LET S == MagnitudesOf(rs, o, c) \cup {0}
    IN CHOOSE m \in S : \A x \in S : x <= m

MaxValsAreMaxima(out, rs, comps) ==
    \A o \in DOMAIN out.summary :
       /\ DOMAIN out.summary[o].max_vals = Range(comps)
       /\ \A c \in Range(comps) : out.summary[o].max_vals[c] = MaxMagnitude(rs, o, c)

\* C15: for every owner and every component of the fixed list, max_vals[component]
\* of the owner's summary is the maximum of the absolute values of all elements of
\* that component over all the owner's records, and 0 when no record of the owner
\* has an element for it.
C15_MaxValsAreMaxima ==
    Done => /\ out1d.computed => MaxValsAreMaxima(out1d, R1D, COMPS_1D)
            /\ outMesh.computed => MaxValsAreMaxima(outMesh, RMesh, COMPS_MESH)

\* C15 witness: one record whose only component is aVz = [0, -MaxVal, 0]: the
\* owner's maximum for aVz is MaxVal, for aN it is 0
C15_Witness ==
    /\ Done /\ out1d.computed /\ Len(R1D) = 1
    /\ DOMAIN R1D[1] \cap Range(COMPS_1D) = {"aVz"}
    /\ R1D[1].aVz = <<0, 0 - MaxVal, 0>>
    /\ out1d.summary[OwnerOf(R1D[1])].max_vals.aVz = MaxVal
    /\ out1d.summary[OwnerOf(R1D[1])].max_vals.aN = 0

\* the sum of a count of the per-owner summary over a set of owners
RECURSIVE SumField(_, _, _)
SumField(summary, owners, field) ==
    IF owners = {} THEN 0
    ELSE LET o == CHOOSE x \in owners : TRUE
         IN summary[o][field] + SumField(summary, owners \ {o}, field)

\* the empty-record warnings of the validation about a collection
EmptyRecordWarnings(coll) ==
    {n \in 1..Len(report.warns) :
        report.warns[n].kind = "vacios" /\ report.warns[n].coll = coll}

SummaryConsistent(out, rs, coll) ==
    /\ DOMAIN out.summary = {OwnerOf(rs[i]) : i \in 1..Len(rs)}
    /\ \A o \in DOMAIN out.summary :
          out.summary[o].nonzero + out.summary[o].zero =
             Cardinality({i \in 1..Len(rs) : OwnerOf(rs[i]) = o})
    /\ SumField(out.summary, DOMAIN out.summary, "zero") = out.empty
    /\ SumField(out.summary, DOMAIN out.summary, "nonzero") = out.full + out.partial
    /\ Cardinality(EmptyRecordWarnings(coll)) = (IF out.empty = 0 THEN 0 ELSE 1)
    /\ \A n \in EmptyRecordWarnings(coll) :
          report.warns[n].n = out.empty /\ report.warns[n].of = out.total
    /\ DOMAIN out.result_index = {KeyOf(rs[i]) : i \in 1..Len(rs)}
    /\ Cardinality(DOMAIN out.result_index) <= out.total

\* C17: for every non-empty result collection the per-owner summary has exactly the
\* distinct owner ids of the collection as its keys, orphaned owners included; for
\* each owner nonzero + zero is the number of its records; over all owners zero
\* sums to the Empty count, which is the count of the validation's empty-record
\* warning, and nonzero sums to Complete + Partial; result_index has one entry per
\* distinct (owner, load) pair, hence at most total entries.
C17_SummaryConsistent ==
    Done => /\ out1d.computed => SummaryConsistent(out1d, R1D, "Results1D")
            /\ outMesh.computed => SummaryConsistent(outMesh, RMesh, "MeshResults")

\* C17 witness: three records of two owners, one of them orphaned, two records
\* sharing their (owner, load) pair, with an empty, a partial and a complete record
C17_Witness ==
    /\ Done /\ out1d.computed /\ out1d.total = 3
    /\ DOMAIN out1d.summary = {"1", "2"}
    /\ report.r1d_o = {"2"}
    /\ Cardinality(DOMAIN out1d.result_index) = 2
    /\ out1d.empty = 1 /\ out1d.partial = 1 /\ out1d.full = 1
    /\ \E n \in 1..Len(report.warns) :
          report.warns[n] = [kind |-> "vacios", coll |-> "Results1D", n |-> 1, of |-> 3]

\* some record of collection k has q as its Id
HasId(d, k, q) ==
    \E i \in 1..Len(Coll(d, k)) : "Id" \in DOMAIN Coll(d, k)[i] /\ Coll(d, k)[i].Id = q

\* the collections id_name_map is built from
MappedCollections == {"Materials", "CrossSections", "LoadCases", "LoadCombinations"}

\* the keys the indexes are queried with: every id a record of the document has,
\* an id no record has, and the keys the lookups use for an absent field, "" in
\* x.get(field, "") and None in r.get("Member")
Queries(d) ==
    {"", None, "zz"} \cup
    UNION {{Coll(d, k)[i].Id : i \in {i \in 1..Len(Coll(d, k)) : "Id" \in DOMAIN Coll(d, k)[i]}} :
             k \in ListKeys}

\* C16 as stated: for every collection, the id set and the id-to-name map built
\* from it have a hit for every id present on one of its records and a miss for
\* every id present on none, records without Id, duplicate ids and absent
\* collections included.
C16_IndexRoundTrip ==
    Done => \A q \in Queries(data) :
               /\ \A k \in DOMAIN report.ids :
                     (q \in report.ids[k]) <=> HasId(data, k, q)
               /\ \A k \in MappedCollections :
                     (q \in DOMAIN id_name_map(Coll(data, k))) <=> HasId(data, k, q)


====
